---------------------------- MODULE Spec2Model ----------------------------
(***************************************************************************)
(* Model of the StreamAlert alert processor,                               *)
(* stream_alert/alert_processor/main.py: handler, run, _sort_dict and      *)
(* _load_output_config.                                                    *)
(*                                                                         *)
(* Python values are tagged records: [t |-> "None"], [t |-> "str", v |->   *)
(* <<characters>>], [t |-> "list", v |-> <<values>>] and [t |-> "dict",    *)
(* v |-> <<<<key, value>>, ...>>] (insertion-ordered, as OrderedDict and   *)
(* the decoded JSON objects are).  A JSON text is [t |-> "text", ok, v]:   *)
(* json.loads raises ValueError when ok is FALSE and returns v otherwise.  *)
(***************************************************************************)
EXTENDS Integers, Sequences, FiniteSets, TLC

(***************************************************************************)
(* Bounds of the model.                                                    *)
(***************************************************************************)
MaxRecords == 2
MaxOutputs == 2
\* nesting depth of the dictionaries _sort_dict is exercised on
MaxDepth == 2

(***************************************************************************)
(* Python values.                                                          *)
(***************************************************************************)
None == [t |-> "None"]
Str(s) == [t |-> "str", v |-> s]
List(s) == [t |-> "list", v |-> s]
Dict(pairs) == [t |-> "dict", v |-> pairs]
Text(ok, value) == [t |-> "text", ok |-> ok, v |-> value]

Keys(d) == {d.v[i][1] : i \in DOMAIN d.v}
Has(d, k) == d.t = "dict" /\ k \in Keys(d)
Get(d, k) == d.v[CHOOSE i \in DOMAIN d.v : d.v[i][1] = k][2]
\* dict.get(k): None when the key is absent
GetOrNone(d, k) == IF Has(d, k) THEN Get(d, k) ELSE None
\* Python truthiness of the values used here
\* variant: only None counts as false (`if config is None`)
IsNotNone(x) == x.t # "None"

Truthy(x) == x.t # "None" /\ (x.t \in {"dict", "list", "str"} => x.v # <<>>)

(***************************************************************************)
(* str.split(':'): the parts between the separators, empty parts kept.     *)
(***************************************************************************)
RECURSIVE SplitAcc(_, _, _)
SplitAcc(s, cur, acc) ==
    IF s = <<>> THEN Append(acc, cur)
    ELSE IF Head(s) = ":" THEN SplitAcc(Tail(s), <<>>, Append(acc, cur))
    ELSE SplitAcc(Tail(s), Append(cur, Head(s)), acc)

split(s) == SplitAcc(s, <<>>, <<>>)

(***************************************************************************)
(* _sort_dict: sorted(items, key=key) into a new OrderedDict, recursing    *)
(* into dict values only.  KeyOrder lists the keys of the model in         *)
(* Python's string order (code points: upper case before lower case).      *)
(***************************************************************************)
KeyOrder == <<"AlarmName", "Message", "Sns", "Subject", "a", "default",
              "metadata", "outputs", "record", "rule_name", "z">>
KeyRank(k) == CHOOSE i \in DOMAIN KeyOrder : KeyOrder[i] = k
KeyLess(a, b) == KeyRank(a) < KeyRank(b)

\* variant: the item is put at the end whatever its key
InsertAtEnd(item, items) == Append(items, item)

RECURSIVE InsertItem(_, _)
InsertItem(item, items) ==
    IF items = <<>> THEN <<item>>
    ELSE IF KeyLess(item[1], Head(items)[1]) THEN <<item>> \o items
    ELSE <<Head(items)>> \o InsertItem(item, Tail(items))

RECURSIVE sorted(_)
sorted(items) ==
    IF items = <<>> THEN <<>>
    ELSE InsertItem(Head(items), sorted(Tail(items)))

\* variant: only the top level is sorted, nested dicts are stored as found
_sort_top_level(unordered_dict) == Dict(sorted(unordered_dict.v))

\* variant: the sorted nested dict is not stored, only non-dict values are
_sort_dict_dropping(unordered_dict) ==
    LET items == sorted(unordered_dict.v)
        kept == SelectSeq(items, LAMBDA item : item[2].t # "dict")
    IN Dict(kept)

RECURSIVE _sort_dict(_)
_sort_dict(unordered_dict) ==
    LET items == sorted(unordered_dict.v)
    IN Dict([i \in DOMAIN items |->
                IF items[i][2].t = "dict"
                THEN <<items[i][1], _sort_dict(items[i][2])>>
                ELSE items[i]])

(***************************************************************************)
(* The environment: destination tokens, routing configuration files,       *)
(* alerts and batch records the handler can be given.                      *)
(***************************************************************************)
Tokens == { <<"s", ":", "d">>, <<"s", ":", "e">>, <<"s">>,
            <<"s", ":", "d", ":", "e">>, <<":", "d">>, <<"s", ":">> }

\* conf/outputs.json: absent or unreadable, not JSON, or a JSON object
\* mapping each service to its descriptors
ConfigFiles ==
    { [t |-> "unreadable"],
      Text(FALSE, None),
      Text(TRUE, Dict(<<>>)),
      Text(TRUE, Dict(<< <<(<<"s">>), List(<<Str(<<"d">>), Str(<<"e">>)>>)>> >>)),
      Text(TRUE, Dict(<< <<(<<"s">>), List(<<Str(<<>>)>>)>> >>)),
      Text(TRUE, Dict(<< <<(<<"t">>), List(<<Str(<<"d">>)>>)>> >>)) }

RECURSIVE SeqsUpTo(_, _)
SeqsUpTo(S, k) ==
    IF k = 0 THEN {<<>>}
    ELSE LET shorter == SeqsUpTo(S, k - 1)
         IN shorter \cup {Append(q, x) : q \in shorter, x \in S}

OutputLists == SeqsUpTo({Str(tok) : tok \in Tokens}, MaxOutputs)

\* an alert as the rule processor sends it, keys in unsorted order
Alert(outs) ==
    Dict(<< <<"record", Dict(<< <<"z", Str(<<"1">>)>>, <<"a", Str(<<"2">>)>> >>)>>,
            <<"metadata", Dict(<< <<"rule_name", Str(<<"r">>)>>,
                                  <<"outputs", List(outs)>> >>)>> >>)

Alerts == {Alert(outs) : outs \in OutputLists}
          \cup {Dict(<< <<"record", Dict(<<>>)>> >>)}

SnsRecord(message) == Dict(<< <<"Sns", Dict(<< <<"Message", message>> >>)>> >>)

Records ==
    { Dict(<<>>),
      Dict(<< <<"Sns", Dict(<<>>)>> >>),
      Dict(<< <<"Sns", Dict(<< <<"Subject", Str(<<"x">>)>> >>)>> >>),
      SnsRecord(Text(FALSE, None)),
      SnsRecord(Text(TRUE, Dict(<< <<"AlarmName", Str(<<"x">>)>> >>))),
      SnsRecord(Text(TRUE, Dict(<<>>))) }
    \cup {SnsRecord(Text(TRUE, Dict(<< <<"default", a>> >>))) : a \in Alerts}

\* get_output_dispatcher(service, region, function_name, config): a
\* dispatcher, None, or an exception out of the call
RegistryOutcomes == {"dispatcher", "none", "raise"}

\* output_dispatcher.dispatch(descriptor, rule_name, alert): the returned
\* boolean, or an exception out of the call
DispatchOutcomes == {"true", "false", "raise"}

(***************************************************************************)
(* State.  hpc is handler's position and rpc the position of the run       *)
(* generator it is consuming; exc is the exception that left handler and   *)
(* ret the value it returned.  logged holds the LOGGER.error and           *)
(* LOGGER.exception messages of the last step.  yields[i] are the results  *)
(* the run generator yielded for the i-th record visited, calls the        *)
(* dispatch invocations of the current run (arguments and outcome) and     *)
(* nodisp the tokens for which the registry returned None in it.           *)
(* unordered_dict, result and applied are the argument of _sort_dict, the  *)
(* value it returned and the number of times it was applied, when the      *)
(* function is exercised on its own (SortSpec below).                      *)
(***************************************************************************)
VARIABLES cfgfile, n, hpc, exc, ret, config, idx, rec, status_values, logged,
          yields, rpc, alert, rule_name, todo, output, sent, calls, nodisp,
          unordered_dict, result, applied

hvars == <<cfgfile, n, hpc, exc, ret, config, idx, rec, status_values, yields>>
rvars == <<rpc, alert, rule_name, todo, output, sent, calls, nodisp>>
svars == <<unordered_dict, result, applied>>
vars == <<hvars, logged, rvars, svars>>

Init ==
    /\ cfgfile \in ConfigFiles
    /\ n \in 0..MaxRecords
    /\ hpc = "start"
    /\ exc = "none"
    /\ ret = None
    /\ config = None
    /\ idx = 0
    /\ rec = None
    /\ status_values = <<>>
    /\ logged = <<>>
    /\ yields = <<>>
    /\ rpc = "idle"
    /\ alert = None
    /\ rule_name = None
    /\ todo = <<>>
    /\ output = None
    /\ sent = FALSE
    /\ calls = <<>>
    /\ nodisp = {}
    /\ unordered_dict = None
    /\ result = None
    /\ applied = 0

(***************************************************************************)
(* _load_output_config: open() is outside the try (an unreadable file      *)
(* raises out of the function); a ValueError of json.load is logged and    *)
(* None returned; otherwise the decoded configuration is returned.         *)
(***************************************************************************)
_load_output_config(file) ==
    IF file.t = "unreadable"
    THEN [exc |-> "IOError", v |-> None, log |-> <<>>]
    ELSE IF ~file.ok
    THEN [exc |-> "none", v |-> None,
          log |-> <<"The conf/outputs.json file could not be loaded into json">>]
    ELSE [exc |-> "none", v |-> file.v, log |-> <<>>]

\* `x in container` for a list (element) or a dict (key)
In(x, container) ==
    IF container.t = "dict" THEN x.v \in Keys(container)
    ELSE \E i \in DOMAIN container.v : container.v[i] = x

(***************************************************************************)
(* handler, lines 43-54: load the configuration, return when it is falsy.  *)
(***************************************************************************)
LoadConfig ==
    /\ hpc = "start"
    /\ LET r == _load_output_config(cfgfile)
       IN /\ logged' = r.log
          /\ IF r.exc # "none"
             THEN /\ hpc' = "raised"
                  /\ exc' = r.exc
                  /\ UNCHANGED <<config, ret>>
             ELSE /\ config' = r.v
                  /\ exc' = exc
                  /\ IF ~Truthy(r.v)
                     THEN hpc' = "returned" /\ ret' = None
                     ELSE hpc' = "loop" /\ ret' = ret
    /\ UNCHANGED <<cfgfile, n, idx, rec, status_values, yields, rvars>>
    /\ UNCHANGED svars

(***************************************************************************)
(* handler, lines 57-72: what the loop body does with one record before    *)
(* it calls run.                                                           *)
(***************************************************************************)
\* variant: the alarm messages are logged as malformed too
MalformedLogAlways(loaded_sns_message) == <<"Malformed SNS">>

MalformedLog(loaded_sns_message) ==
    IF ~Has(loaded_sns_message, "AlarmName") THEN <<"Malformed SNS">> ELSE <<>>

\* variant: json.loads outside any try, its ValueError leaves handler
RecordStepNoTry(record) ==
    LET sns_payload == GetOrNone(record, "Sns")
    IN IF ~Truthy(sns_payload)
       THEN [next |-> "continue", exc |-> "none", log |-> <<>>]
       ELSE IF ~Has(sns_payload, "Message")
       THEN [next |-> "raise", exc |-> "KeyError", log |-> <<>>]
       ELSE LET sns_message == Get(sns_payload, "Message")
            IN IF ~sns_message.ok
               THEN [next |-> "raise", exc |-> "ValueError", log |-> <<>>]
               ELSE IF ~Has(sns_message.v, "default")
               THEN [next |-> "continue", exc |-> "none",
                     log |-> MalformedLog(sns_message.v)]
               ELSE [next |-> "run", exc |-> "none", log |-> <<>>]

RecordStep(record) ==
    LET sns_payload == GetOrNone(record, "Sns")
    IN IF ~Truthy(sns_payload)
       THEN [next |-> "continue", exc |-> "none", log |-> <<>>]
       ELSE IF ~Has(sns_payload, "Message")
       THEN [next |-> "raise", exc |-> "KeyError", log |-> <<>>]
       ELSE LET sns_message == Get(sns_payload, "Message")
            IN IF ~sns_message.ok
               THEN [next |-> "continue", exc |-> "none",
                     log |-> <<"An error occurred while decoding message to JSON">>]
               ELSE IF ~Has(sns_message.v, "default")
               THEN [next |-> "continue", exc |-> "none",
                     log |-> MalformedLog(sns_message.v)]
               ELSE [next |-> "run", exc |-> "none", log |-> <<>>]

HandleRecord ==
    /\ hpc = "loop"
    /\ idx < n
    /\ \E record \in Records :
         LET step == RecordStep(record)
         IN /\ rec' = record
            /\ idx' = idx + 1
            /\ yields' = Append(yields, <<>>)
            /\ logged' = step.log
            /\ exc' = step.exc
            /\ hpc' = CASE step.next = "continue" -> "loop"
                        [] step.next = "raise" -> "raised"
                        [] OTHER -> "run"
            /\ rpc' = IF step.next = "run" THEN "start" ELSE rpc
    /\ UNCHANGED <<cfgfile, n, ret, config, status_values>>
    /\ UNCHANGED <<alert, rule_name, todo, output, sent, calls, nodisp>>
    /\ UNCHANGED svars

\* variant: the return is inside the loop body, taken before the batch ends
ReturnInLoop ==
    /\ hpc = "loop"
    /\ idx <= n
    /\ hpc' = "returned"
    /\ ret' = List(status_values)
    /\ logged' = <<>>
    /\ UNCHANGED <<cfgfile, n, exc, config, idx, rec, status_values, yields, rvars>>
    /\ UNCHANGED svars

\* handler, line 77
Return ==
    /\ hpc = "loop"
    /\ idx = n
    /\ hpc' = "returned"
    /\ ret' = List(status_values)
    /\ logged' = <<>>
    /\ UNCHANGED <<cfgfile, n, exc, config, idx, rec, status_values, yields, rvars>>
    /\ UNCHANGED svars

(***************************************************************************)
(* run, lines 113-120.  A missing key raises KeyError out of the           *)
(* generator and so out of handler's extend.                               *)
(***************************************************************************)
\* set(outputs): the distinct elements; iteration takes them in any order
\* variant: the list is iterated as it is, duplicates included
NoDedup(s) == s

RECURSIVE set(_)
set(s) ==
    IF s = <<>> THEN <<>>
    ELSE LET rest == set(Tail(s))
         IN IF \E i \in DOMAIN rest : rest[i] = Head(s)
            THEN rest ELSE <<Head(s)>> \o rest

\* variant: the alert is dispatched as received, _sort_dict is not applied
RunStartUnsorted ==
    /\ hpc = "run"
    /\ rpc = "start"
    /\ logged' = <<>>
    /\ \E raw \in {Get(Get(Get(rec, "Sns"), "Message").v, "default")} :
          IF /\ Has(raw, "metadata")
             /\ Has(Get(raw, "metadata"), "rule_name")
             /\ Has(Get(raw, "metadata"), "outputs")
          THEN /\ rule_name' = Get(Get(raw, "metadata"), "rule_name")
               /\ alert' = raw
               /\ todo' = set(Get(Get(raw, "metadata"), "outputs").v)
               /\ rpc' = "loop"
               /\ UNCHANGED <<hpc, exc>>
          ELSE /\ hpc' = "raised"
               /\ exc' = "KeyError"
               /\ UNCHANGED <<rule_name, alert, todo, rpc>>
    /\ UNCHANGED <<cfgfile, n, ret, config, idx, rec, status_values, yields>>
    /\ UNCHANGED <<output, sent, calls, nodisp>>
    /\ UNCHANGED svars

RunStart ==
    /\ hpc = "run"
    /\ rpc = "start"
    /\ logged' = <<>>
    /\ \E raw \in {Get(Get(Get(rec, "Sns"), "Message").v, "default")} :
          IF /\ Has(raw, "metadata")
             /\ Has(Get(raw, "metadata"), "rule_name")
             /\ Has(Get(raw, "metadata"), "outputs")
          THEN /\ rule_name' = Get(Get(raw, "metadata"), "rule_name")
               /\ alert' = _sort_dict(raw)
               /\ todo' = set(Get(Get(alert', "metadata"), "outputs").v)
               /\ rpc' = "loop"
               /\ UNCHANGED <<hpc, exc>>
          ELSE /\ hpc' = "raised"
               /\ exc' = "KeyError"
               /\ UNCHANGED <<rule_name, alert, todo, rpc>>
    /\ UNCHANGED <<cfgfile, n, ret, config, idx, rec, status_values, yields>>
    /\ UNCHANGED <<output, sent, calls, nodisp>>
    /\ UNCHANGED svars

(***************************************************************************)
(* run, lines 123-133: split the token and look it up in the               *)
(* configuration.                                                          *)
(***************************************************************************)
\* variant: only the service is looked up
ServiceConfigured(service, descriptor, cfg) == Has(cfg, service)

Configured(service, descriptor, cfg) ==
    Has(cfg, service) /\ In(Str(descriptor), Get(cfg, service))

Resolve(tok, cfg) ==
    LET parts == split(tok.v)
    IN IF Len(parts) # 2
       THEN [ok |-> FALSE, log |-> <<"Improperly formatted output">>]
       ELSE IF ~Configured(parts[1], parts[2], cfg)
       THEN [ok |-> FALSE, log |-> <<"The output does not exist!">>]
       ELSE [ok |-> TRUE, log |-> <<>>]

\* the sequence without its i-th element
Without(s, i) == [j \in 1..(Len(s) - 1) |-> IF j < i THEN s[j] ELSE s[j + 1]]

(***************************************************************************)
(* run, lines 122-141: take the next token of the set; skip it when it is  *)
(* malformed, not configured or without dispatcher.  The registry call is  *)
(* outside any try.                                                        *)
(***************************************************************************)
\* variant: no `if not output_dispatcher: continue`, None goes on to dispatch
NextOutputNoCheck ==
    /\ hpc = "run"
    /\ rpc = "loop"
    /\ \E i \in DOMAIN todo :
         LET r == Resolve(todo[i], config)
         IN /\ todo' = Without(todo, i)
            /\ output' = todo[i]
            /\ logged' = r.log
            /\ IF ~r.ok
               THEN UNCHANGED <<hpc, exc, rpc, nodisp>>
               ELSE \E d \in RegistryOutcomes :
                      /\ hpc' = IF d = "raise" THEN "raised" ELSE hpc
                      /\ exc' = IF d = "raise" THEN "RegistryError" ELSE exc
                      /\ rpc' = IF d # "raise" THEN "dispatch" ELSE rpc
                      /\ nodisp' = IF d = "none" THEN nodisp \cup {todo[i]}
                                   ELSE nodisp
    /\ UNCHANGED <<cfgfile, n, ret, config, idx, rec, status_values, yields>>
    /\ UNCHANGED <<alert, rule_name, sent, calls>>
    /\ UNCHANGED svars

NextOutput ==
    /\ hpc = "run"
    /\ rpc = "loop"
    /\ \E i \in DOMAIN todo :
         LET r == Resolve(todo[i], config)
         IN /\ todo' = Without(todo, i)
            /\ output' = todo[i]
            /\ logged' = r.log
            /\ IF ~r.ok
               THEN UNCHANGED <<hpc, exc, rpc, nodisp>>
               ELSE \E d \in RegistryOutcomes :
                      /\ hpc' = IF d = "raise" THEN "raised" ELSE hpc
                      /\ exc' = IF d = "raise" THEN "RegistryError" ELSE exc
                      /\ rpc' = IF d = "dispatcher" THEN "dispatch" ELSE rpc
                      /\ nodisp' = IF d = "none" THEN nodisp \cup {todo[i]}
                                   ELSE nodisp
    /\ UNCHANGED <<cfgfile, n, ret, config, idx, rec, status_values, yields>>
    /\ UNCHANGED <<alert, rule_name, sent, calls>>
    /\ UNCHANGED svars

(***************************************************************************)
(* run, lines 143-152: sent is False unless dispatch returns; `except      *)
(* Exception` catches what the call raises and logs it.                    *)
(***************************************************************************)
\* variant: the dispatch call is not wrapped in try/except
DispatchErrorEscapes == FALSE

CatchesDispatchError == TRUE

\* variant: sent starts as True and only a returned False clears it
SentUnlessFalse(oc) == oc # "false"

Sent(oc) == oc = "true"

DispatchErrorLog == <<"An error occurred while sending alert">>

Dispatch ==
    /\ hpc = "run"
    /\ rpc = "dispatch"
    /\ \E oc \in DispatchOutcomes :
         /\ calls' = Append(calls, [output |-> output,
                                    service |-> split(output.v)[1],
                                    descriptor |-> split(output.v)[2],
                                    rule_name |-> rule_name,
                                    alert |-> alert, outcome |-> oc])
         /\ IF oc = "raise" /\ ~CatchesDispatchError
            THEN /\ hpc' = "raised"
                 /\ exc' = "DispatchError"
                 /\ logged' = <<>>
                 /\ UNCHANGED <<rpc, sent>>
            ELSE /\ sent' = Sent(oc)
                 /\ rpc' = "yield"
                 /\ logged' = IF oc = "raise" THEN DispatchErrorLog ELSE <<>>
                 /\ UNCHANGED <<hpc, exc>>
    /\ UNCHANGED <<cfgfile, n, ret, config, idx, rec, status_values, yields>>
    /\ UNCHANGED <<alert, rule_name, todo, output, nodisp>>
    /\ UNCHANGED svars

(***************************************************************************)
(* run, line 155, and handler, line 74: the generator yields (sent,        *)
(* output) and handler's extend appends it to status_values.               *)
(***************************************************************************)
\* variant: the results of a record replace the accumulated ones
Replace(values, item) == <<item>>

Extend(values, item) == Append(values, item)

\* variant: a result is yielded only for a delivery that succeeded
YieldOnlyIfSent ==
    /\ hpc = "run"
    /\ rpc = "yield"
    /\ status_values' = IF sent THEN Extend(status_values, <<sent, output.v>>)
                        ELSE status_values
    /\ yields' = IF sent THEN [yields EXCEPT ![idx] = Append(@, <<sent, output.v>>)]
                 ELSE yields
    /\ rpc' = "loop"
    /\ logged' = <<>>
    /\ UNCHANGED <<cfgfile, n, hpc, exc, ret, config, idx, rec>>
    /\ UNCHANGED <<alert, rule_name, todo, output, sent, calls, nodisp>>
    /\ UNCHANGED svars

Yield ==
    /\ hpc = "run"
    /\ rpc = "yield"
    /\ status_values' = Extend(status_values, <<sent, output.v>>)
    /\ yields' = [yields EXCEPT ![idx] = Append(@, <<sent, output.v>>)]
    /\ rpc' = "loop"
    /\ logged' = <<>>
    /\ UNCHANGED <<cfgfile, n, hpc, exc, ret, config, idx, rec>>
    /\ UNCHANGED <<alert, rule_name, todo, output, sent, calls, nodisp>>
    /\ UNCHANGED svars

(***************************************************************************)
(* run, line 122, and handler, lines 56 and 74: the set is exhausted, the  *)
(* generator ends, its frame is dropped and handler goes on to the next    *)
(* record.                                                                 *)
(***************************************************************************)
RunEnd ==
    /\ hpc = "run"
    /\ rpc = "loop"
    /\ todo = <<>>
    /\ hpc' = "loop"
    /\ rpc' = "idle"
    /\ rec' = None
    /\ alert' = None
    /\ rule_name' = None
    /\ output' = None
    /\ sent' = FALSE
    /\ calls' = <<>>
    /\ nodisp' = {}
    /\ logged' = <<>>
    /\ UNCHANGED <<cfgfile, n, exc, ret, config, idx, status_values, yields, todo>>
    /\ UNCHANGED svars

Next ==
    \/ LoadConfig
    \/ HandleRecord
    \/ Return
    \/ RunStart
    \/ NextOutput
    \/ Dispatch
    \/ Yield
    \/ RunEnd

Spec == Init /\ [][Next]_vars

(***************************************************************************)
(* handler runs on one thread and nothing in it waits: json.load,          *)
(* json.loads, the registry call and the dispatch call each return or      *)
(* raise, so a step that can be taken is taken.                            *)
(***************************************************************************)
FairSpec == Spec /\ WF_vars(Next)

(***************************************************************************)
(* _sort_dict on its own, lines 157-174.  The arguments are dictionaries   *)
(* over the keys 'a' and 'z' in every order, 'z' holding a scalar and 'a'  *)
(* a scalar, a list of scalars in unsorted order, a dictionary of the next *)
(* depth, or a list holding such a dictionary.  SortCall is a call on the  *)
(* argument, SortAgain a call on the value the first call returned; the    *)
(* function builds a new OrderedDict and never writes to its argument.     *)
(***************************************************************************)
SortKeyOrders == {<<>>, <<"a">>, <<"z">>, <<"a", "z">>, <<"z", "a">>}

Scalar == Str(<<"1">>)
ScalarList == List(<<Str(<<"z">>), Str(<<"a">>)>>)

RECURSIVE SortValues(_)
SortDicts(depth) ==
    {Dict([i \in DOMAIN ks |-> <<ks[i], IF ks[i] = "a" THEN value ELSE Scalar>>]) :
        ks \in SortKeyOrders, value \in SortValues(depth)}

SortValues(depth) ==
    IF depth = 0 THEN {Scalar, ScalarList}
    ELSE {Scalar, ScalarList}
         \cup SortDicts(depth - 1)
         \cup {List(<<d>>) : d \in SortDicts(depth - 1)}

SortInputs == SortDicts(MaxDepth)

SortInit ==
    /\ unordered_dict \in SortInputs
    /\ result = None
    /\ applied = 0
    /\ cfgfile = [t |-> "unreadable"]
    /\ n = 0
    /\ hpc = "start"
    /\ exc = "none"
    /\ ret = None
    /\ config = None
    /\ idx = 0
    /\ rec = None
    /\ status_values = <<>>
    /\ logged = <<>>
    /\ yields = <<>>
    /\ rpc = "idle"
    /\ alert = None
    /\ rule_name = None
    /\ todo = <<>>
    /\ output = None
    /\ sent = FALSE
    /\ calls = <<>>
    /\ nodisp = {}

SortCall ==
    /\ applied = 0
    /\ result' = _sort_dict(unordered_dict)
    /\ applied' = 1
    /\ UNCHANGED <<unordered_dict, hvars, logged, rvars>>

SortAgain ==
    /\ applied = 1
    /\ result' = _sort_dict(result)
    /\ applied' = 2
    /\ UNCHANGED <<unordered_dict, hvars, logged, rvars>>

SortNext ==
    \/ SortCall
    \/ SortAgain

SortSpec == SortInit /\ [][SortNext]_vars

(***************************************************************************)
(* Vocabulary of the properties, stated on the state and independently of  *)
(* the operators the actions use.                                          *)
(***************************************************************************)
\* the run generator has started iterating (it may since have been aborted)
InRun == rpc \in {"loop", "dispatch", "yield"}

\* the generator has processed every token of the set and is about to end
RunExhausted == hpc = "run" /\ rpc = "loop" /\ todo = <<>>

\* the outputs list of the alert run is processing, and its distinct tokens
RunOutputs == Get(Get(alert, "metadata"), "outputs").v
RunTokens == {RunOutputs[i] : i \in DOMAIN RunOutputs}

\* the results the current run has yielded so far
RunResults == yields[idx]

\* "service:descriptor" with service a key of the configuration and
\* descriptor listed under it
InConfig(tok) ==
    LET p == split(tok.v)
    IN /\ Len(p) = 2
       /\ \E i \in DOMAIN config.v :
            /\ config.v[i][1] = p[1]
            /\ \E j \in DOMAIN config.v[i][2].v : config.v[i][2].v[j].v = p[2]

\* the token splits on ':' into exactly two non-empty parts
WellFormed(tok) ==
    LET p == split(tok.v)
    IN Len(p) = 2 /\ p[1] # <<>> /\ p[2] # <<>>

RECURSIVE Flatten(_)
Flatten(ss) == IF ss = <<>> THEN <<>> ELSE Head(ss) \o Flatten(Tail(ss))

(***************************************************************************)
(* C1: when a dispatch call raises, the exception does not leave run, the  *)
(* result (False, token) is yielded for that token, and the loop goes on:  *)
(* when the generator is exhausted every token of the alert that is in     *)
(* the configuration and got a dispatcher has its dispatch call and its    *)
(* result, whatever the other calls did.                                   *)
(***************************************************************************)
C1_DispatchErrorContained ==
    /\ exc # "DispatchError"
    /\ InRun =>
         \A i \in DOMAIN calls :
            calls[i].outcome = "raise" =>
               IF i <= Len(RunResults)
               THEN RunResults[i] = <<FALSE, calls[i].output.v>>
               ELSE hpc = "run" /\ rpc = "yield" /\ i = Len(calls) /\ sent = FALSE
    /\ RunExhausted =>
         \A tok \in RunTokens :
            (InConfig(tok) /\ tok \notin nodisp) =>
               \E i \in DOMAIN calls :
                  /\ calls[i].output = tok
                  /\ i <= Len(RunResults)
                  /\ RunResults[i][2] = tok.v

\* the first of two configured tokens raised, the second was still sent
C1_Witness ==
    /\ RunExhausted
    /\ Len(calls) = 2
    /\ calls[1].outcome = "raise"
    /\ calls[2].outcome = "true"
    /\ WellFormed(calls[1].output) /\ WellFormed(calls[2].output)
    /\ RunResults = << <<FALSE, calls[1].output.v>>, <<TRUE, calls[2].output.v>> >>

(***************************************************************************)
(* C2: the results run yields are, one for one and in order, the dispatch  *)
(* invocations it made: as many results as invocations (the invocation     *)
(* whose result is being yielded apart), each for the invoked token.       *)
(***************************************************************************)
C2_OneResultPerDispatch ==
    InRun =>
       /\ Len(RunResults) = Len(calls) - (IF rpc = "yield" THEN 1 ELSE 0)
       /\ \A i \in DOMAIN RunResults : RunResults[i][2] = calls[i].output.v
       /\ \A tok \in RunTokens :
            rpc # "yield" =>
               Cardinality({i \in DOMAIN RunResults : RunResults[i][2] = tok.v})
                  = Cardinality({i \in DOMAIN calls : calls[i].output = tok})

\* one token dispatched and answered, another token of the alert skipped
C2_Witness ==
    /\ RunExhausted
    /\ Cardinality(RunTokens) = 2
    /\ Len(calls) = 1
    /\ Len(RunResults) = 1

(***************************************************************************)
(* C3: within one alert no token is dispatched twice, however often it is  *)
(* repeated in metadata.outputs and whatever the outcome of the attempt.   *)
(***************************************************************************)
C3_AtMostOneDispatchPerToken ==
    \A i, j \in DOMAIN calls : calls[i].output = calls[j].output => i = j

\* a token listed twice was dispatched, and the attempt failed
C3_Witness ==
    /\ RunExhausted
    /\ Len(RunOutputs) = 2
    /\ RunOutputs[1] = RunOutputs[2]
    /\ Len(calls) = 1
    /\ calls[1].output = RunOutputs[1]
    /\ calls[1].outcome # "true"

(***************************************************************************)
(* C4: a token "service:descriptor" whose service is no key of the         *)
(* configuration, or whose descriptor is not under it, gets no registry    *)
(* lookup, no dispatch and no result, and the step that examines it        *)
(* leaves run in its loop with only that token taken off the set.          *)
(***************************************************************************)
UnknownDestination(tok) == Len(split(tok.v)) = 2 /\ ~InConfig(tok)

C4_UnknownDestinationSkipped ==
    /\ [](InRun =>
            /\ \A i \in DOMAIN calls : ~UnknownDestination(calls[i].output)
            /\ \A i \in DOMAIN RunResults :
                 ~UnknownDestination(Str(RunResults[i][2]))
            /\ \A tok \in nodisp : ~UnknownDestination(tok))
    /\ [][(hpc = "run" /\ rpc = "loop" /\ todo' # todo
              /\ UnknownDestination(output'))
           => /\ hpc' = "run" /\ rpc' = "loop"
              /\ calls' = calls /\ nodisp' = nodisp
              /\ yields' = yields /\ status_values' = status_values
              /\ Len(todo') = Len(todo) - 1]_vars

\* a well-formed but unknown token was skipped and another token was sent
C4_Witness ==
    /\ RunExhausted
    /\ \E tok \in RunTokens : WellFormed(tok) /\ UnknownDestination(tok)
    /\ Len(calls) = 1
    /\ Len(RunResults) = 1

(***************************************************************************)
(* C5: a token that does not split on ':' into exactly two non-empty       *)
(* parts gets no dispatch and no result.                                   *)
(***************************************************************************)
C5_MalformedTokenSkipped ==
    InRun =>
       /\ \A i \in DOMAIN calls : WellFormed(calls[i].output)
       /\ \A i \in DOMAIN RunResults : WellFormed(Str(RunResults[i][2]))

(***************************************************************************)
(* C6: when the configuration file cannot be read or is not JSON, handler  *)
(* returns, with no results, before any record is processed.               *)
(***************************************************************************)
ConfigUnloadable == cfgfile.t = "unreadable" \/ ~cfgfile.ok

C6_UnloadableConfigReturns ==
    (ConfigUnloadable /\ hpc # "start") =>
       /\ hpc = "returned"
       /\ ret = None
       /\ idx = 0
       /\ calls = <<>>

(***************************************************************************)
(* C7: once the configuration has loaded, no error of a record (missing    *)
(* payload, malformed alert) leaves handler.                               *)
(***************************************************************************)
C7_RecordErrorsContained ==
    Truthy(config) => ~(hpc = "raised" /\ exc = "KeyError")

(***************************************************************************)
(* C8: status_values is at every moment the concatenation, in record       *)
(* order, of what run yielded for each record, and the list handler        *)
(* returns is that concatenation over the whole batch.                     *)
(***************************************************************************)
C8_ReturnIsConcatenation ==
    /\ status_values = Flatten(yields)
    /\ (hpc = "returned" /\ ret.t = "list") =>
          /\ ret.v = Flatten(yields)
          /\ Len(yields) = n

\* two records, one result each, for distinct destinations
C8_Witness ==
    /\ hpc = "returned"
    /\ ret.t = "list"
    /\ n = 2
    /\ Len(yields[1]) = 1 /\ Len(yields[2]) = 1
    /\ yields[1][1][2] # yields[2][1][2]
    /\ ret.v = <<yields[1][1], yields[2][1]>>

(***************************************************************************)
(* C9: a record whose decoded envelope has no 'default' key adds nothing   *)
(* to the results and starts no run, and one error is logged exactly when  *)
(* the envelope has no 'AlarmName' key either.                             *)
(***************************************************************************)
Envelope(record) == Get(Get(record, "Sns"), "Message")

DecodedWithoutDefault(record) ==
    /\ Has(record, "Sns")
    /\ Has(Get(record, "Sns"), "Message")
    /\ Envelope(record).ok
    /\ ~Has(Envelope(record).v, "default")

C9_NoDefaultSkipped ==
    [][(hpc = "loop" /\ idx' = idx + 1 /\ DecodedWithoutDefault(rec'))
        => /\ hpc' = "loop" /\ rpc' = "idle"
           /\ status_values' = status_values
           /\ yields'[idx'] = <<>>
           /\ calls' = calls
           /\ Len(logged') = (IF Has(Envelope(rec').v, "AlarmName") THEN 0 ELSE 1)]_vars

\* after an earlier result, an envelope with neither key: one error logged
C9_Witness ==
    /\ hpc = "loop"
    /\ DecodedWithoutDefault(rec)
    /\ ~Has(Envelope(rec).v, "AlarmName")
    /\ logged = <<"Malformed SNS">>
    /\ Len(status_values) = 1
    /\ yields[idx] = <<>>

(***************************************************************************)
(* C10: a record without Sns.Message ('Sns' absent, or present without     *)
(* 'Message') is skipped: no exception leaves handler for it.              *)
(***************************************************************************)
PayloadMissing(record) ==
    /\ record.t = "dict"
    /\ ~Has(record, "Sns") \/ ~Has(Get(record, "Sns"), "Message")

C10_MissingPayloadSkipped ==
    PayloadMissing(rec) => (hpc # "raised" /\ exc = "none" /\ logged = <<>>)


(***************************************************************************)
(* C11: a record whose payload is present but is not valid JSON makes      *)
(* handler log the decode failure, add no result and start no run, and     *)
(* leaves it at the head of the loop, where the next record (or the        *)
(* return, after the last one) is taken as after any other record; the     *)
(* results of the other records are those of C8.                           *)
(***************************************************************************)
Undecodable(record) ==
    /\ Has(record, "Sns")
    /\ Has(Get(record, "Sns"), "Message")
    /\ ~Envelope(record).ok

C11_UndecodableSkipped ==
    /\ [](Undecodable(rec) =>
            /\ hpc \in {"loop", "returned"} /\ exc = "none" /\ rpc = "idle"
            /\ yields[idx] = <<>>
            /\ hpc = "loop" =>
                  /\ logged = <<"An error occurred while decoding message to JSON">>
                  /\ idx < n => ENABLED HandleRecord
                  /\ idx = n => ENABLED Return)
    /\ [][(hpc = "loop" /\ idx' = idx + 1 /\ Undecodable(rec'))
            => /\ status_values' = status_values
               /\ calls' = calls
               /\ config' = config]_vars

\* an undecodable record was just skipped and another record follows
C11_Witness ==
    /\ Undecodable(rec)
    /\ hpc = "loop"
    /\ idx = 1 /\ n = 2
    /\ status_values = <<>>
    /\ logged # <<>>


(***************************************************************************)
(* Vocabulary of the properties of _sort_dict.                             *)
(***************************************************************************)
KeysSorted(d) ==
    \A i \in 1..(Len(d.v) - 1) : KeyRank(d.v[i][1]) < KeyRank(d.v[i + 1][1])

\* every dictionary in x, those inside lists included, has its keys sorted
RECURSIVE EveryMappingSorted(_)
EveryMappingSorted(x) ==
    CASE x.t = "dict" -> /\ KeysSorted(x)
                         /\ \A i \in DOMAIN x.v : EveryMappingSorted(x.v[i][2])
      [] x.t = "list" -> \A i \in DOMAIN x.v : EveryMappingSorted(x.v[i])
      [] OTHER -> TRUE

\* every dictionary of x reached through dictionary values only is sorted
RECURSIVE MappingsOutsideSequencesSorted(_)
MappingsOutsideSequencesSorted(x) ==
    IF x.t = "dict"
    THEN /\ KeysSorted(x)
         /\ \A i \in DOMAIN x.v : MappingsOutsideSequencesSorted(x.v[i][2])
    ELSE TRUE

\* a list of x reached through dictionary values only is the same in y
RECURSIVE SequencesKept(_, _)
SequencesKept(x, y) ==
    IF x.t = "dict"
    THEN /\ y.t = "dict"
         /\ \A k \in Keys(x) : Has(y, k) /\ SequencesKept(Get(x, k), Get(y, k))
    ELSE x.t = "list" => y = x

\* x holds a list with a dictionary whose keys are not sorted
RECURSIVE HoldsUnsortedInSequence(_)
HoldsUnsortedInSequence(x) ==
    CASE x.t = "dict" -> \E i \in DOMAIN x.v : HoldsUnsortedInSequence(x.v[i][2])
      [] x.t = "list" -> \E i \in DOMAIN x.v : ~EveryMappingSorted(x.v[i])
      [] OTHER -> FALSE

(***************************************************************************)
(* C12 as claimed: after _sort_dict every dictionary at every depth, the   *)
(* dictionaries nested inside lists included, has its keys sorted.         *)
(***************************************************************************)
C12_EveryMappingSorted ==
    applied > 0 => EveryMappingSorted(result)

(***************************************************************************)
(* C12 amended: after _sort_dict every dictionary reached from the root    *)
(* through dictionary values only has its keys sorted; a list is passed    *)
(* through as it is, so a dictionary inside a list keeps its key order.    *)
(***************************************************************************)
C12_MappingsOutsideSequencesSorted ==
    applied > 0 =>
        /\ MappingsOutsideSequencesSorted(result)
        /\ SequencesKept(unordered_dict, result)

\* unsorted at the top and one level down, and an unsorted dict in a list
C12_Witness ==
    /\ applied = 1
    /\ ~KeysSorted(unordered_dict)
    /\ Get(unordered_dict, "a").t = "dict"
    /\ ~KeysSorted(Get(unordered_dict, "a"))
    /\ HoldsUnsortedInSequence(unordered_dict)
    /\ HoldsUnsortedInSequence(result)
    /\ KeysSorted(result) /\ KeysSorted(Get(result, "a"))


(***************************************************************************)
(* C13: _sort_dict is idempotent: applied to the value it returned, it     *)
(* returns an equal value, with the same key order at every level.         *)
(***************************************************************************)
C13_Idempotent ==
    [][applied = 1 => result' = result]_vars

\* applied twice to an argument that was unsorted at two levels
C13_Witness ==
    /\ applied = 2
    /\ ~KeysSorted(unordered_dict)
    /\ Get(unordered_dict, "a").t = "dict"
    /\ ~KeysSorted(Get(unordered_dict, "a"))
    /\ result # unordered_dict

(***************************************************************************)
(* C14: _sort_dict changes key order only: the value it returns has the    *)
(* same keys as its argument and the same value under every path, a list   *)
(* is returned with its elements as they were and in the same order, and   *)
(* the argument itself is left as it was.                                  *)
(***************************************************************************)
RECURSIVE SameContent(_, _)
SameContent(x, y) ==
    IF x.t = "dict"
    THEN /\ y.t = "dict"
         /\ Keys(y) = Keys(x)
         /\ Len(y.v) = Len(x.v)
         /\ \A k \in Keys(x) : SameContent(Get(x, k), Get(y, k))
    ELSE y = x

C14_OnlyKeyOrderChanges ==
    /\ [](applied > 0 => SameContent(unordered_dict, result))
    /\ [][unordered_dict' = unordered_dict]_vars

\* reordered at two levels, with a list of scalars and a dict in a list
C14_Witness ==
    /\ applied = 1
    /\ result # unordered_dict
    /\ ~KeysSorted(unordered_dict)
    /\ Get(unordered_dict, "a").t = "dict"
    /\ Has(Get(unordered_dict, "a"), "a")
    /\ Get(Get(unordered_dict, "a"), "a").t = "list"
    /\ Get(Get(unordered_dict, "a"), "a").v[1].t = "dict"
    /\ Get(Get(result, "a"), "a") = Get(Get(unordered_dict, "a"), "a")


(***************************************************************************)
(* C15: a token that is in the configuration but for which the registry    *)
(* returns no dispatcher gets no dispatch call and no result at all (not   *)
(* a result with sent = False), and run goes on with the next token.       *)
(***************************************************************************)
C15_NoDispatcherSkipped ==
    InRun =>
       \A tok \in nodisp :
          /\ InConfig(tok)
          /\ \A i \in DOMAIN calls : calls[i].output # tok
          /\ \A i \in DOMAIN RunResults : RunResults[i][2] # tok.v
          /\ output = tok => (hpc = "run" /\ rpc = "loop" /\ exc = "none")

\* of two configured tokens one had no dispatcher, the other was dispatched
C15_Witness ==
    /\ RunExhausted
    /\ Cardinality(RunTokens) = 2
    /\ \A tok \in RunTokens : InConfig(tok)
    /\ Cardinality(nodisp) = 1
    /\ Len(calls) = 1
    /\ Len(RunResults) = 1
    /\ calls[1].output \notin nodisp

(***************************************************************************)
(* C16: an exception raised by the registry call is treated as "no         *)
(* dispatcher available": it does not leave run and handler, the token is  *)
(* skipped and the remaining tokens and records are processed.             *)
(***************************************************************************)
C16_RegistryErrorContained ==
    ~(hpc = "raised" /\ exc = "RegistryError")

(***************************************************************************)
(* C17: every dispatch call gets the alert in canonical form (the value    *)
(* _sort_dict returned: the content of the received alert with the keys    *)
(* sorted), the rule name found under metadata.rule_name, and as           *)
(* descriptor the part of the token after the ':'; the token of the        *)
(* result is the token as listed in metadata.outputs, whose part before    *)
(* the ':' is the service the dispatcher was asked for.                    *)
(***************************************************************************)
ReceivedAlert == Get(Envelope(rec).v, "default")

\* the dispatch call of the current token has just been made
JustDispatched == hpc = "run" /\ rpc = "yield"

C17_DispatchArguments ==
    /\ JustDispatched =>
          LET call == calls[Len(calls)]
              metadata == Get(ReceivedAlert, "metadata")
          IN /\ SameContent(ReceivedAlert, call.alert)
             /\ MappingsOutsideSequencesSorted(call.alert)
             /\ call.rule_name = Get(metadata, "rule_name")
             /\ call.output = output
             /\ \E j \in DOMAIN Get(metadata, "outputs").v :
                   Get(metadata, "outputs").v[j] = output
             /\ output.v = call.service \o <<":">> \o call.descriptor
    /\ InRun =>
          \A i \in DOMAIN RunResults : RunResults[i][2] = calls[i].output.v

\* two dispatches of an alert that was received with unsorted keys
C17_Witness ==
    /\ RunExhausted
    /\ Len(calls) = 2
    /\ Len(RunResults) = 2
    /\ ~MappingsOutsideSequencesSorted(ReceivedAlert)
    /\ calls[1].alert # ReceivedAlert
    /\ calls[1].descriptor # calls[2].descriptor

(***************************************************************************)
(* C18: no false success: a result says True only when the dispatch call   *)
(* of its token returned True; when the call raised the result says        *)
(* False, and otherwise it says what the call returned.  These results     *)
(* are the ones handler has appended to its list.                          *)
(***************************************************************************)
C18_NoFalseSuccess ==
    InRun =>
       /\ \A i \in DOMAIN RunResults :
             /\ RunResults[i][1] = TRUE <=> calls[i].outcome = "true"
             /\ calls[i].outcome \in {"raise", "false"} => RunResults[i][1] = FALSE
       /\ Len(status_values) >= Len(RunResults)
       /\ \A i \in DOMAIN RunResults :
             status_values[Len(status_values) - Len(RunResults) + i] = RunResults[i]

\* one call returned True and one returned False
C18_Witness ==
    /\ RunExhausted
    /\ Len(calls) = 2
    /\ {calls[1].outcome, calls[2].outcome} = {"true", "false"}
    /\ {RunResults[1][1], RunResults[2][1]} = {TRUE, FALSE}

(***************************************************************************)
(* C19: what handler returns is None exactly when the configuration file   *)
(* was read and gave a falsy value (it did not parse, or it parsed to an   *)
(* empty object), and then no record was processed; with any other         *)
(* configuration what it returns is the list of results, empty when no     *)
(* dispatch gave a result.                                                 *)
(***************************************************************************)
LoadedFalsy ==
    /\ cfgfile.t = "text"
    /\ IF cfgfile.ok THEN cfgfile.v.v = <<>> ELSE TRUE

C19_NoneIffConfigFalsy ==
    /\ hpc = "returned" => (ret = None <=> LoadedFalsy)
    /\ (LoadedFalsy /\ hpc # "start") =>
          /\ hpc = "returned" /\ ret = None
          /\ idx = 0 /\ rec = None
          /\ status_values = <<>> /\ yields = <<>>
    /\ (hpc = "returned" /\ ~LoadedFalsy) =>
          /\ ret.t = "list"
          /\ ret.v = status_values
          /\ (\A i \in DOMAIN yields : yields[i] = <<>>) => ret.v = <<>>

\* an empty configuration object and a batch of two records: None
C19_Witness ==
    /\ hpc = "returned"
    /\ cfgfile.t = "text" /\ cfgfile.ok
    /\ ret = None
    /\ n = 2 /\ idx = 0


(***************************************************************************)
(* C20 as claimed: handler ends by returning, and when it has ended every  *)
(* record of the batch has been visited.                                   *)
(***************************************************************************)
Done == hpc \in {"returned", "raised"}

C20_ReturnsAfterEveryRecord ==
    Done => (hpc = "returned" /\ idx = n)

(***************************************************************************)
(* C20 amended: for every finite batch handler eventually ends, by         *)
(* returning or by raising; it loads the configuration once, before the    *)
(* first record, and visits the records in batch order, each at most       *)
(* once; when it returns a list it has visited every record exactly once,  *)
(* and when it returns None it has visited none.                           *)
(***************************************************************************)
C20_Terminates ==
    /\ <>Done
    /\ [](idx > 0 => hpc # "start")
    /\ [](idx \in 0..n /\ Len(yields) = idx)
    /\ [](hpc = "returned" => IF ret = None THEN idx = 0 ELSE idx = n)
    /\ [][hpc # "start" => (hpc' # "start" /\ config' = config)]_vars
    /\ [][hpc = "start" => (hpc' # "start" /\ idx' = 0)]_vars
    /\ [][idx' = idx \/ (idx' = idx + 1 /\ hpc = "loop")]_vars
    /\ [][Done => UNCHANGED vars]_vars

\* two records visited, the second one dispatched, and the list returned
C20_Witness ==
    /\ hpc = "returned"
    /\ ret.t = "list"
    /\ n = 2 /\ idx = 2
    /\ yields[2] # <<>>

=============================================================================
